---- MODULE Spec2Model ----
(***************************************************************************)
(* django_tables2.columns.manytomanycolumn.ManyToManyColumn                *)
(*                                                                         *)
(* A column instance is its configuration (transform, filter, separator    *)
(* and the arguments handed on to the base Column).  render(value) is      *)
(* modelled step by step, as Python 3 evaluates the expression of lines    *)
(* 73-80: exists(), conditional_escape(separator), filter(value), then     *)
(* str.join pulling one record at a time through the two lazy maps, and    *)
(* finally mark_safe.  Text is a sequence of one-character strings with a  *)
(* flag telling whether it is a SafeText (has __html__).                   *)
(***************************************************************************)
EXTENDS Naturals, Sequences, FiniteSets, TLC

VARIABLES columns, calls, returned

vars == <<columns, calls, returned>>

(***************************** bounds **************************************)
\* Render calls that may be in progress at once (slots of `calls`).
MaxCalls == 2
\* Largest number of related records behind one relation accessor.
MaxLen == 3

(***************************** text ****************************************)
\* A plain str / a SafeText with the characters s.
Plain(s) == [s |-> s, safe |-> FALSE]
Safe(s) == [s |-> s, safe |-> TRUE]

\* django.utils.html.escape: the chained replace of & < > " ' (the & first),
\* which is a character-wise substitution (Django 1.x/2.x spell ' as &#39;).
EscapeChar(ch) ==
  CASE ch = "&" -> <<"&", "a", "m", "p", ";">>
    [] ch = "<" -> <<"&", "l", "t", ";">>
    [] ch = ">" -> <<"&", "g", "t", ";">>
    [] ch = "\"" -> <<"&", "q", "u", "o", "t", ";">>
    [] ch = "'" -> <<"&", "#", "3", "9", ";">>
    [] OTHER -> <<ch>>

RECURSIVE EscapeText(_)
EscapeText(s) ==
  IF s = <<>> THEN <<>> ELSE EscapeChar(Head(s)) \o EscapeText(Tail(s))

\* escape(text) returns mark_safe(<replaced text>).
escape(text) == Safe(EscapeText(text.s))

\* Mutant: every text is taken as markup already and only marked safe.
conditional_escape_trusting(text) == Safe(text.s)

\* conditional_escape(text): text.__html__() when text has __html__ (a
\* SafeText returns itself), escape(text) otherwise.
conditional_escape(text) == IF text.safe THEN text ELSE escape(text)

\* mark_safe(s): s itself when it has __html__, SafeText(s) otherwise.
mark_safe(text) == IF text.safe THEN text ELSE Safe(text.s)

\* str.join: the items' characters with the separator's between them; the
\* result is a plain str whatever the operands' types.
RECURSIVE JoinChars(_, _)
JoinChars(sep, items) ==
  IF items = <<>> THEN <<>>
  ELSE IF Len(items) = 1 THEN items[1].s
  ELSE items[1].s \o sep.s \o JoinChars(sep, Tail(items))

\* Mutant: the separator follows every item, the last one too.
RECURSIVE TrailingChars(_, _)
TrailingChars(sep, items) ==
  IF items = <<>> THEN <<>>
  ELSE items[1].s \o sep.s \o TrailingChars(sep, Tail(items))

join_trailing(sep, items) == Plain(TrailingChars(sep, items))

join(sep, items) == Plain(JoinChars(sep, items))

(***************************** records *************************************)
\* Related records (model instances), named by what str() gives for them.
Records == {"A", "B", "C", "M"}

\* The order in which the database yields them.
Rank == [r \in Records |->
          CASE r = "A" -> 1 [] r = "B" -> 2 [] r = "C" -> 3 [] r = "M" -> 4]

\* str(record): M's text holds markup-significant characters.
StrOf == [r \in Records |->
           CASE r = "A" -> <<"A">>
             [] r = "B" -> <<"B">>
             [] r = "C" -> <<"C">>
             [] r = "M" -> <<"<", "b", ">">>]

\* force_text(obj) of a record: its str(), a plain text.
force_text(obj) == Plain(StrOf[obj])

\* A relation accessor (ManyRelatedManager) is the sequence of its related
\* records in database order, at most MaxLen of them.
Accessors ==
  {v \in UNION {[1..n -> Records] : n \in 0..MaxLen} :
     \A i, j \in DOMAIN v : i < j => Rank[v[i]] < Rank[v[j]]}

\* value.exists()
exists(value) == Len(value) > 0

\* qs.all()
all(qs) == qs

RECURSIVE Reverse(_)
Reverse(s) == IF s = <<>> THEN <<>> ELSE Append(Reverse(Tail(s)), Head(s))

Take(s, n) == SubSeq(s, 1, IF Len(s) < n THEN Len(s) ELSE n)

(***************************** hooks ***************************************)
\* The callables a caller may pass as transform=... : "safe" returns
\* mark_safe(force_text(obj)), "tag" returns the plain text '<' + str(obj),
\* "strict" raises for record B and returns str(obj) otherwise.
CustomTransforms == {"safe", "tag", "strict"}
\* The callables a caller may pass as filter=... : "rev2" reverses and keeps
\* the first two records, "none" yields no record.
CustomFilters == {"rev2", "none"}
\* None: the argument is left out.
None == "None"

\* The outcome of calling a hook: a returned value or a raised exception.
Returns(v) == [raised |-> FALSE, val |-> v]
Raises == [raised |-> TRUE, val |-> Plain(<<>>)]

\* ManyToManyColumn.transform, the class default.
transform(obj) == Returns(force_text(obj))

\* ManyToManyColumn.filter, the class default.
filter(qs) == all(qs)

\* self.transform(obj): the instance attribute set by __init__, or the class
\* default when the attribute was not set.
self_transform(self, obj) ==
  CASE self.transform = "default" -> transform(obj)
    [] self.transform = "safe" -> Returns(mark_safe(force_text(obj)))
    [] self.transform = "tag" -> Returns(Plain(<<"<">> \o StrOf[obj]))
    [] self.transform = "strict" ->
         IF obj = "B" THEN Raises ELSE Returns(force_text(obj))

\* self.filter(qs), likewise.
self_filter(self, qs) ==
  CASE self.filter = "default" -> filter(qs)
    [] self.filter = "rev2" -> Take(Reverse(qs), 2)
    [] self.filter = "none" -> <<>>

(***************************** construction ********************************)
\* separator=... as callers pass it: the default ', ', a plain '<br>' and a
\* mark_safe('<br>').
DefaultSeparator == Plain(<<",", " ">>)
Separators ==
  {DefaultSeparator, Plain(<<"<", "b", "r", ">">>), Safe(<<"<", "b", "r", ">">>)}

\* **kwargs as callers pass them: nothing, orderable=True, orderable=False.
NoKwargs == [k \in {} |-> TRUE]
KwargsChoices == {NoKwargs, ("orderable" :> TRUE), ("orderable" :> FALSE)}

\* dict.setdefault(key, value)
setdefault(kwargs, key, value) ==
  IF key \in DOMAIN kwargs THEN kwargs ELSE kwargs @@ (key :> value)

\* *args as callers pass them after separator: nothing, one argument, or
\* five (None, None, None, True, True).
NoArgs == <<>>
ArgsChoices == {NoArgs, <<"Friends">>, <<None, None, None, TRUE, TRUE>>}

\* super().__init__(*args, **kwargs) on line 56 runs Column.__init__, which is
\* outside this file.  Keyword options alone (orderable, verbose_name) are
\* configuration the base column takes; how it binds positional arguments,
\* and whether one of them collides with the orderable keyword that line 54
\* may have added, is the base column's matter: the call returns or raises
\* TypeError.
BaseOutcomes(args, kwargs) ==
  IF args = <<>> THEN {"returns"} ELSE {"returns", "raises"}

\* Mutant: kwargs['orderable'] = False, whatever the caller gave.
__init__forced(transform_, filter_, separator, args, kwargs, base) ==
  [raised |-> base = "raises",
   self   |-> [transform |-> IF transform_ # None THEN transform_ ELSE "default",
               filter    |-> IF filter_ # None THEN filter_ ELSE "default",
               separator |-> separator,
               args      |-> args,
               kwargs    |-> [k \in DOMAIN kwargs \cup {"orderable"} |->
                                IF k = "orderable" THEN FALSE ELSE kwargs[k]]]]

\* ManyToManyColumn.__init__, where base is what the call of Column.__init__
\* on line 56 comes to: the instance attributes it sets, the positional and
\* keyword arguments it hands to Column.__init__ (fields args and kwargs), and
\* whether it ends with the base's exception, leaving no instance.  transform
\* and filter read "default" when the instance attribute is not set, so that
\* the lookup falls through to the class's method.
__init__(transform_, filter_, separator, args, kwargs, base) ==
  [raised |-> base = "raises",
   self   |-> [transform |-> IF transform_ # None THEN transform_ ELSE "default",
               filter    |-> IF filter_ # None THEN filter_ ELSE "default",
               separator |-> separator,
               args      |-> args,
               kwargs    |-> setdefault(kwargs, "orderable", FALSE)]]

\* Field classes and their base classes (isinstance follows them).
FieldClasses ==
  {"ManyToManyField", "SortedManyToManyField", "ForeignKey", "CharField"}
Bases == [c \in FieldClasses |->
           CASE c = "ManyToManyField" -> {"ManyToManyField", "Field"}
             [] c = "SortedManyToManyField" ->
                  {"SortedManyToManyField", "ManyToManyField", "Field"}
             [] c = "ForeignKey" -> {"ForeignKey", "Field"}
             [] c = "CharField" -> {"CharField", "Field"}]

isinstance(field, class) == class \in Bases[field.class]

\* Field labels: 'friends' and 'Tags'.
Labels == {<<"f", "r", "i", "e", "n", "d", "s">>, <<"T", "a", "g", "s">>}
Fields == [class : FieldClasses, verbose_name : Labels]

\* str.upper() of one character.
Lower == <<"a", "d", "e", "f", "g", "i", "n", "r", "s", "t">>
Upper == <<"A", "D", "E", "F", "G", "I", "N", "R", "S", "T">>
upper(ch) ==
  IF \E i \in DOMAIN Lower : Lower[i] = ch
  THEN Upper[CHOOSE i \in DOMAIN Lower : Lower[i] = ch]
  ELSE ch

\* django_tables2.utils.ucfirst: the first character upper-cased.
ucfirst(s) == <<upper(Head(s))>> \o Tail(s)

\* Mutant: the isinstance test is missing.
from_field_any(field) ==
  <<__init__(None, None, DefaultSeparator, NoArgs,
             ("verbose_name" :> ucfirst(field.verbose_name)),
                  "returns").self>>

\* ManyToManyColumn.from_field: <<column>> when it returns an instance, <<>>
\* when it falls off the end and returns None.
from_field(field) ==
  IF isinstance(field, "ManyToManyField")
  THEN <<__init__(None, None, DefaultSeparator, NoArgs,
                  ("verbose_name" :> ucfirst(field.verbose_name)),
                  "returns").self>>
  ELSE <<>>

(***************************** state ***************************************)
\* A slot with no render call in it.
Idle ==
  [pc |-> "idle", self |-> 0, value |-> <<>>, sep |-> <<>>, it |-> <<>>,
   recs |-> <<>>, items |-> <<>>, result |-> <<>>, nfilter |-> 0,
   ntransform |-> 0]

CallIds == 1..MaxCalls

NoCall == [op |-> "none"]

\* A table's definition writes ManyToManyColumn(t, f, s, *args, **kw): the
\* new instance is the table's column; when the constructor raises there is
\* no instance.
Construct(t, f, s, args, kw, base) ==
  /\ columns = <<>>
  /\ base \in BaseOutcomes(args, setdefault(kw, "orderable", FALSE))
  /\ LET new == __init__(t, f, s, args, kw, base)
     IN /\ columns' = IF new.raised THEN columns ELSE <<new.self>>
        /\ returned' = [op |-> "__init__",
                        args |-> [transform |-> t, filter |-> f,
                                  separator |-> s, args |-> args,
                                  kwargs |-> kw],
                        raised |-> new.raised,
                        handed |-> [args |-> new.self.args,
                                    kwargs |-> new.self.kwargs],
                        value |-> IF new.raised THEN <<>> ELSE <<new.self>>]
  /\ UNCHANGED calls

\* The table framework asks ManyToManyColumn.from_field(field) while it builds
\* a table from a model; an instance it returns becomes the table's column.
FromField(field) ==
  /\ columns = <<>>
  /\ columns' = from_field(field)
  /\ returned' = [op |-> "from_field", args |-> field,
                  value |-> from_field(field)]
  /\ UNCHANGED calls

(***************************** render **************************************)
\* render(self, value) is entered: slot c holds the call's frame.
render_call(c, k, v) ==
  /\ calls[c].pc = "idle"
  /\ k \in DOMAIN columns
  /\ calls' = [calls EXCEPT ![c] = [Idle EXCEPT !.pc = "exists", !.self = k,
                                                !.value = v]]
  /\ UNCHANGED <<columns, returned>>

\* Mutant: the emptiness test is missing.
render_exists_unchecked(c) ==
  /\ calls[c].pc = "exists"
  /\ calls' = [calls EXCEPT ![c] = [calls[c] EXCEPT !.pc = "sep"]]
  /\ UNCHANGED <<columns, returned>>

\* Mutant: the emptiness test is made on what the filter yields.
render_exists_filtered(c) ==
  /\ calls[c].pc = "exists"
  /\ LET self == columns[calls[c].self]
         qs == self_filter(self, calls[c].value)
     IN calls' = [calls EXCEPT ![c] =
                    IF ~exists(qs)
                    THEN [calls[c] EXCEPT !.pc = "done",
                                          !.result = <<Plain(<<"-">>)>>,
                                          !.nfilter = calls[c].nfilter + 1]
                    ELSE [calls[c] EXCEPT !.pc = "sep",
                                          !.nfilter = calls[c].nfilter + 1]]
  /\ UNCHANGED <<columns, returned>>

\* Lines 73-74: if not value.exists(): return '-'
render_exists(c) ==
  /\ calls[c].pc = "exists"
  /\ calls' = [calls EXCEPT ![c] =
                 IF ~exists(calls[c].value)
                 THEN [calls[c] EXCEPT !.pc = "done",
                                       !.result = <<Plain(<<"-">>)>>]
                 ELSE [calls[c] EXCEPT !.pc = "sep"]]
  /\ UNCHANGED <<columns, returned>>

\* Mutant: the separator is joined as it is.
render_separator_raw(c) ==
  /\ calls[c].pc = "sep"
  /\ LET self == columns[calls[c].self]
     IN calls' = [calls EXCEPT ![c] =
                    [calls[c] EXCEPT !.pc = "filter",
                                     !.sep = <<self.separator>>]]
  /\ UNCHANGED <<columns, returned>>

\* Mutant: the escaped separator is kept on the column for the next call
\* (self.separator = conditional_escape(self.separator)).
render_separator_cached(c) ==
  /\ calls[c].pc = "sep"
  /\ LET self == columns[calls[c].self]
     IN /\ calls' = [calls EXCEPT ![c] =
                       [calls[c] EXCEPT
                          !.pc = "filter",
                          !.sep = <<conditional_escape(self.separator)>>]]
        /\ columns' = [columns EXCEPT ![calls[c].self].separator =
                                         conditional_escape(self.separator)]
  /\ UNCHANGED returned

\* Line 77: conditional_escape(self.separator)
render_separator(c) ==
  /\ calls[c].pc = "sep"
  /\ LET self == columns[calls[c].self]
     IN calls' = [calls EXCEPT ![c] =
                    [calls[c] EXCEPT
                       !.pc = "filter",
                       !.sep = <<conditional_escape(self.separator)>>]]
  /\ UNCHANGED <<columns, returned>>

\* Line 78: self.filter(value), the iterable the maps draw from.
render_filter(c) ==
  /\ calls[c].pc = "filter"
  /\ LET self == columns[calls[c].self]
     IN calls' = [calls EXCEPT ![c] =
                    [calls[c] EXCEPT
                       !.pc = "join",
                       !.it = self_filter(self, calls[c].value),
                       !.nfilter = calls[c].nfilter + 1]]
  /\ UNCHANGED <<columns, returned>>

\* Mutant: a record whose transform raises is skipped.
render_next_skipping(c) ==
  /\ calls[c].pc = "join"
  /\ calls[c].it # <<>>
  /\ LET self == columns[calls[c].self]
         r == Head(calls[c].it)
         o == self_transform(self, r)
         pulled == [calls[c] EXCEPT !.it = Tail(calls[c].it),
                                    !.recs = Append(calls[c].recs, r),
                                    !.ntransform = calls[c].ntransform + 1]
     IN calls' = [calls EXCEPT ![c] =
                    IF o.raised
                    THEN pulled
                    ELSE [pulled EXCEPT
                            !.items = Append(calls[c].items,
                                             conditional_escape(o.val))]]
  /\ UNCHANGED <<columns, returned>>

\* Mutant: only the first item is escaped.
render_next_first_only(c) ==
  /\ calls[c].pc = "join"
  /\ calls[c].it # <<>>
  /\ LET self == columns[calls[c].self]
         r == Head(calls[c].it)
         o == self_transform(self, r)
         pulled == [calls[c] EXCEPT !.it = Tail(calls[c].it),
                                    !.recs = Append(calls[c].recs, r),
                                    !.ntransform = calls[c].ntransform + 1]
     IN calls' = [calls EXCEPT ![c] =
                    IF o.raised
                    THEN [pulled EXCEPT !.pc = "raised"]
                    ELSE [pulled EXCEPT
                            !.items = Append(calls[c].items,
                                             IF calls[c].items = <<>>
                                             THEN conditional_escape(o.val)
                                             ELSE mark_safe(o.val))]]
  /\ UNCHANGED <<columns, returned>>

\* Line 78, once per record join pulls: conditional_escape(self.transform(r)).
\* An exception raised by transform leaves render with no value.
render_next(c) ==
  /\ calls[c].pc = "join"
  /\ calls[c].it # <<>>
  /\ LET self == columns[calls[c].self]
         r == Head(calls[c].it)
         o == self_transform(self, r)
         pulled == [calls[c] EXCEPT !.it = Tail(calls[c].it),
                                    !.recs = Append(calls[c].recs, r),
                                    !.ntransform = calls[c].ntransform + 1]
     IN calls' = [calls EXCEPT ![c] =
                    IF o.raised
                    THEN [pulled EXCEPT !.pc = "raised"]
                    ELSE [pulled EXCEPT
                            !.items = Append(calls[c].items,
                                             conditional_escape(o.val))]]
  /\ UNCHANGED <<columns, returned>>

\* Lines 76-80: return mark_safe(<escaped separator>.join(<escaped items>))
render_return(c) ==
  /\ calls[c].pc = "join"
  /\ calls[c].it = <<>>
  /\ calls' = [calls EXCEPT ![c] =
                 [calls[c] EXCEPT
                    !.pc = "done",
                    !.result = <<mark_safe(join(calls[c].sep[1],
                                                calls[c].items))>>]]
  /\ UNCHANGED <<columns, returned>>

\* The caller has taken render's value or exception: the frame is gone.
Finish(c) ==
  /\ calls[c].pc \in {"done", "raised"}
  /\ calls' = [calls EXCEPT ![c] = Idle]
  /\ UNCHANGED <<columns, returned>>

(***************************** specifications ******************************)
\* A table defines its column (by hand or through from_field) and renders
\* one cell after the other.
Init ==
  /\ columns = <<>>
  /\ calls = [c \in CallIds |-> Idle]
  /\ returned = NoCall

Next ==
  \/ \E t \in CustomTransforms \cup {None}, f \in CustomFilters \cup {None},
        s \in Separators, args \in ArgsChoices, kw \in KwargsChoices,
        base \in {"returns", "raises"} : Construct(t, f, s, args, kw, base)
  \/ \E field \in Fields : FromField(field)
  \/ \E c \in CallIds, v \in Accessors :
       /\ \A d \in CallIds : calls[d].pc = "idle"
       /\ render_call(c, 1, v)
  \/ \E c \in CallIds : render_exists(c)
  \/ \E c \in CallIds : render_separator(c)
  \/ \E c \in CallIds : render_filter(c)
  \/ \E c \in CallIds : render_next(c)
  \/ \E c \in CallIds : render_return(c)
  \/ \E c \in CallIds : Finish(c)

Spec == Init /\ [][Next]_vars

\* One table with two ManyToManyColumns, already constructed, whose cells are
\* rendered by calls that may overlap (several rows, several requests).
MultiColumns ==
  {__init__(t, f, DefaultSeparator, NoArgs, NoKwargs, "returns").self :
     t \in {None, "safe", "strict"}, f \in {None, "rev2"}}

MultiAccessors == {<<>>, <<"M">>, <<"A", "B", "M">>}

InitMulti ==
  /\ columns \in {<<a, b>> : a \in MultiColumns, b \in MultiColumns}
  /\ calls = [c \in CallIds |-> Idle]
  /\ returned = NoCall

NextMulti ==
  \/ \E c \in CallIds, k \in {1, 2}, v \in MultiAccessors :
       /\ IF c = 1 THEN TRUE ELSE calls[c - 1].pc # "idle"
       /\ render_call(c, k, v)
  \/ \E c \in CallIds : render_exists(c)
  \/ \E c \in CallIds : render_separator(c)
  \/ \E c \in CallIds : render_filter(c)
  \/ \E c \in CallIds : render_next(c)
  \/ \E c \in CallIds : render_return(c)

SpecMulti == InitMulti /\ [][NextMulti]_vars

(***************************** properties **********************************)
\* The column a call renders for, and what the call has come to.
ColumnOf(c) == columns[calls[c].self]
Returned(c) == calls[c].pc = "done"
Raised(c) == calls[c].pc = "raised"
Entered(c) == calls[c].pc # "idle"

\* The text of a string literal, for reading the examples below.
Dash == <<"-">>

\* texts[1] sep texts[2] sep ... texts[n], built from the left.
RECURSIVE Joined(_, _, _)
Joined(sep, texts, n) ==
  IF n = 0 THEN <<>>
  ELSE IF n = 1 THEN texts[1]
  ELSE Joined(sep, texts, n - 1) \o sep \o texts[n]

\* The records a column's filter yields for an accessor, and the text a
\* column's transform gives for a record.
Yielded(col, value) == self_filter(col, value)
TextOf(col, r) == self_transform(col, r).val
Fails(col, r) == self_transform(col, r).raised

\* C1: whatever the column's configuration, render of an accessor whose
\* collection is empty returns exactly the plain text "-" (and never raises).
C1_EmptyRendersPlaceholder ==
  \A c \in CallIds :
    (calls[c].pc \notin {"idle", "exists"} /\ ~exists(calls[c].value))
      => /\ Returned(c)
         /\ calls[c].result = <<Plain(Dash)>>

C1_Witness ==
  \E c \in CallIds :
    /\ Returned(c)
    /\ calls[c].value = <<>>
    /\ ColumnOf(c).transform = "strict"
    /\ ColumnOf(c).filter = "rev2"
    /\ ColumnOf(c).separator = Safe(<<"<", "b", "r", ">">>)
    /\ calls[c].result = <<Plain(Dash)>>

\* C2: render of a non-empty accessor returns the safe-markup string that is
\* the escaped separator joined between the escaped transform of each record
\* the filter yields, one item per record, in the filter's order; [A, B, C]
\* with the defaults gives "A, B, C" and a filter yielding [C, B] "C, B".
C2_Expected(col, value) ==
  LET recs == Yielded(col, value)
      texts == [i \in 1..Len(recs) |-> conditional_escape(TextOf(col, recs[i])).s]
  IN Safe(Joined(conditional_escape(col.separator).s, texts, Len(recs)))

C2_NonEmptyRendersJoinedItems ==
  \A c \in CallIds :
    (Returned(c) /\ exists(calls[c].value))
      => /\ calls[c].result = <<C2_Expected(ColumnOf(c), calls[c].value)>>
         /\ Len(calls[c].items) = Len(Yielded(ColumnOf(c), calls[c].value))
         /\ calls[c].recs = Yielded(ColumnOf(c), calls[c].value)
         /\ (/\ calls[c].value = <<"A", "B", "C">>
             /\ ColumnOf(c).transform = "default"
             /\ ColumnOf(c).separator = DefaultSeparator)
              => /\ ColumnOf(c).filter = "default"
                   => calls[c].result =
                        <<Safe(<<"A", ",", " ", "B", ",", " ", "C">>)>>
                 /\ ColumnOf(c).filter = "rev2"
                   => calls[c].result = <<Safe(<<"C", ",", " ", "B">>)>>

C2_Witness ==
  \E c \in CallIds :
    /\ Returned(c)
    /\ calls[c].value = <<"A", "B", "C">>
    /\ ColumnOf(c).filter = "rev2"
    /\ calls[c].result = <<Safe(<<"C", ",", " ", "B">>)>>

\* The characters that open markup or close an attribute.
MarkupChars == {"<", ">", "\"", "'"}
HasRawMarkup(s) == \E i \in DOMAIN s : s[i] \in MarkupChars

\* C3 as stated: whatever kind of text transform returns, plain or already
\* marked safe, the item joined into the cell is the escaped form of that
\* text, with no markup-significant character left as it was.
C3_TransformOutputAlwaysEscaped ==
  \A c \in CallIds :
    \A i \in DOMAIN calls[c].items :
      LET t == TextOf(ColumnOf(c), calls[c].recs[i])
      IN /\ calls[c].items[i].s = EscapeText(t.s)
         /\ ~HasRawMarkup(calls[c].items[i].s)

\* C3 as the code has it: a plain text returned by transform is joined in
\* escaped form, with no markup-significant character left unescaped ("<b>"
\* renders as "&lt;b&gt;"); a text that carries the safe-markup marking is
\* joined unchanged.
C3_PlainTransformOutputEscaped ==
  \A c \in CallIds :
    /\ Len(calls[c].items) <= Len(calls[c].recs)
    /\ \A i \in DOMAIN calls[c].items :
         LET t == TextOf(ColumnOf(c), calls[c].recs[i])
         IN IF t.safe
            THEN calls[c].items[i].s = t.s
            ELSE /\ calls[c].items[i].s = EscapeText(t.s)
                 /\ ~HasRawMarkup(calls[c].items[i].s)
    /\ (Returned(c) /\ calls[c].recs = <<"M">>
          /\ ColumnOf(c).transform = "default")
         => calls[c].result = <<Safe(<<"&", "l", "t", ";", "b", "&", "g", "t", ";">>)>>

C3_Witness ==
  \E c \in CallIds :
    /\ Returned(c)
    /\ ColumnOf(c).transform = "tag"
    /\ calls[c].value = <<"A", "M">>
    /\ ColumnOf(c).filter = "default"
    /\ ColumnOf(c).separator = DefaultSeparator
    /\ calls[c].result =
         <<Safe(<<"&", "l", "t", ";", "A", ",", " ",
                  "&", "l", "t", ";", "&", "l", "t", ";", "b", "&", "g", "t", ";">>)>>

\* C4 as stated: whatever kind of text the separator is, plain or already
\* marked safe, what render joins with is its escaped form, with no
\* markup-significant character left as it was.
C4_SeparatorAlwaysEscaped ==
  \A c \in CallIds :
    calls[c].sep # <<>>
      => /\ calls[c].sep[1].s = EscapeText(ColumnOf(c).separator.s)
         /\ ~HasRawMarkup(calls[c].sep[1].s)

\* C4 as the code has it: a plain separator is joined in escaped form, with
\* no markup-significant character left unescaped; a separator that carries
\* the safe-markup marking is joined unchanged.
C4_PlainSeparatorEscaped ==
  \A c \in CallIds :
    /\ calls[c].sep # <<>>
         => IF ColumnOf(c).separator.safe
            THEN calls[c].sep[1].s = ColumnOf(c).separator.s
            ELSE /\ calls[c].sep[1].s = EscapeText(ColumnOf(c).separator.s)
                 /\ ~HasRawMarkup(calls[c].sep[1].s)
    /\ (Returned(c) /\ exists(calls[c].value))
         => /\ calls[c].sep # <<>>
            /\ calls[c].result =
                 <<Safe(Joined(calls[c].sep[1].s,
                               [i \in DOMAIN calls[c].items |-> calls[c].items[i].s],
                               Len(calls[c].items)))>>

C4_Witness ==
  \E c \in CallIds :
    /\ Returned(c)
    /\ ColumnOf(c).separator = Plain(<<"<", "b", "r", ">">>)
    /\ ColumnOf(c).transform = "default"
    /\ ColumnOf(c).filter = "default"
    /\ calls[c].value = <<"A", "B">>
    /\ calls[c].result =
         <<Safe(<<"A", "&", "l", "t", ";", "b", "r", "&", "g", "t", ";", "B">>)>>

\* C5: a column constructed without an orderable option has orderable = False
\* handed to the base column, and one constructed with orderable = True or
\* False hands on exactly that value; nothing the caller supplied, positional
\* or keyword, is overwritten on the way to the base column, and the column
\* that comes of it holds what was handed on.
C5_OrderableDefaultsFalse ==
  returned.op = "__init__"
    => LET given == returned.args.kwargs
           got == returned.handed.kwargs
       IN /\ "orderable" \in DOMAIN got
          /\ "orderable" \notin DOMAIN given => got["orderable"] = FALSE
          /\ "orderable" \in DOMAIN given
               => got["orderable"] = given["orderable"]
          /\ DOMAIN got = DOMAIN given \cup {"orderable"}
          /\ returned.handed.args = returned.args.args
          /\ ~returned.raised
               => /\ columns = returned.value
                  /\ Len(columns) = 1
                  /\ columns[1].kwargs = got
                  /\ columns[1].args = returned.args.args

C5_Witness ==
  /\ returned.op = "__init__"
  /\ ~returned.raised
  /\ "orderable" \in DOMAIN returned.args.kwargs
  /\ returned.args.kwargs["orderable"] = TRUE
  /\ returned.args.args = <<"Friends">>
  /\ columns[1].kwargs["orderable"] = TRUE
  /\ columns[1].args = <<"Friends">>

\* C6: from_field returns a new column, with the field's label capitalised as
\* its verbose name, the default transform, filter and separator and
\* orderable = False, exactly when the field is a many-to-many field; for
\* any other field it returns None.
ManyToManyKinds == {"ManyToManyField", "SortedManyToManyField"}
Capitalised(label) ==
  IF label = <<"f", "r", "i", "e", "n", "d", "s">>
  THEN <<"F", "r", "i", "e", "n", "d", "s">>
  ELSE label

C6_FromFieldOnlyManyToMany ==
  returned.op = "from_field"
    => LET field == returned.args
       IN /\ (field.class \in ManyToManyKinds) <=> (returned.value # <<>>)
          /\ returned.value # <<>>
               => /\ columns = returned.value
                  /\ columns[1].args = <<>>
                  /\ DOMAIN columns[1].kwargs = {"verbose_name", "orderable"}
                  /\ columns[1].kwargs["verbose_name"] =
                       Capitalised(field.verbose_name)
                  /\ columns[1].kwargs["orderable"] = FALSE
                  /\ columns[1].transform = "default"
                  /\ columns[1].filter = "default"
                  /\ columns[1].separator = Plain(<<",", " ">>)

C6_Witness ==
  /\ returned.op = "from_field"
  /\ returned.args.class = "ManyToManyField"
  /\ returned.args.verbose_name = <<"f", "r", "i", "e", "n", "d", "s">>
  /\ Len(columns) = 1
  /\ columns[1].kwargs["verbose_name"] = <<"F", "r", "i", "e", "n", "d", "s">>

\* C8: when transform raises for one of the records the filter yields, be it
\* the first, a middle or the last one, render ends with that exception and
\* no value: not the join of the items so far, not the cell without the
\* failing record, not the placeholder.
C8_TransformErrorAbortsCell ==
  \A c \in CallIds :
    LET col == ColumnOf(c)
        recs == Yielded(col, calls[c].value)
    IN /\ Raised(c)
         => /\ calls[c].result = <<>>
            /\ calls[c].recs # <<>>
            /\ Fails(col, calls[c].recs[Len(calls[c].recs)])
            /\ calls[c].recs = SubSeq(recs, 1, Len(calls[c].recs))
       /\ (Returned(c) /\ exists(calls[c].value))
            => \A i \in DOMAIN recs : ~Fails(col, recs[i])
       /\ (calls[c].pc = "join" /\ calls[c].it = <<>>)
            => \A i \in DOMAIN recs : ~Fails(col, recs[i])

\* A middle record fails: one item was transformed, one record is left.
C8_Witness ==
  \E c \in CallIds :
    /\ Raised(c)
    /\ calls[c].result = <<>>
    /\ calls[c].value = <<"A", "B", "C">>
    /\ ColumnOf(c).filter = "default"
    /\ Len(calls[c].items) = 1
    /\ calls[c].it = <<"C">>

\* C10: the placeholder is decided on the accessor itself, before the filter
\* runs: for an empty accessor neither filter nor transform is called, and
\* for a non-empty accessor whose filter yields nothing render returns the
\* empty safe-markup string, not "-".
C10_PlaceholderDecidedBeforeFilter ==
  \A c \in CallIds :
    /\ (Entered(c) /\ ~exists(calls[c].value))
         => /\ calls[c].nfilter = 0
            /\ calls[c].ntransform = 0
    /\ calls[c].pc \in {"exists", "sep", "filter"}
         => /\ calls[c].nfilter = 0
            /\ calls[c].ntransform = 0
    /\ (Returned(c) /\ exists(calls[c].value)
          /\ Yielded(ColumnOf(c), calls[c].value) = <<>>)
         => /\ calls[c].result = <<Safe(<<>>)>>
            /\ calls[c].nfilter = 1
            /\ calls[c].ntransform = 0

C10_Witness ==
  \E c \in CallIds :
    /\ Returned(c)
    /\ calls[c].value = <<"A", "B">>
    /\ ColumnOf(c).filter = "none"
    /\ calls[c].result = <<Safe(<<>>)>>
    /\ calls[c].nfilter = 1

\* C7: the two hooks act independently.  Of two columns that differ only in
\* filter, rendering the same non-empty accessor, each shows the records its
\* own filter yields, and every item is the (escaped) transform of the record
\* it stands for, the same text in both cells for a record both show.  Of
\* two columns that differ only in transform, the cells have the same number
\* of items, for the same records in the same order, joined by the same
\* escaped separator.
C7_HooksIndependent ==
  \A c, d \in CallIds :
    (/\ Returned(c) /\ Returned(d)
     /\ calls[c].value = calls[d].value
     /\ exists(calls[c].value)
     /\ ColumnOf(c).separator = ColumnOf(d).separator)
      => LET a == ColumnOf(c)
             b == ColumnOf(d)
         IN /\ (a.transform = b.transform /\ a.filter # b.filter)
                 => /\ calls[c].recs = Yielded(a, calls[c].value)
                    /\ Len(calls[c].items) = Len(calls[c].recs)
                    /\ \A i \in DOMAIN calls[c].items :
                         calls[c].items[i] =
                           conditional_escape(TextOf(a, calls[c].recs[i]))
                    /\ \A i \in DOMAIN calls[c].items :
                         \A j \in DOMAIN calls[d].items :
                           calls[c].recs[i] = calls[d].recs[j]
                             => calls[c].items[i] = calls[d].items[j]
            /\ (a.filter = b.filter /\ a.transform # b.transform)
                 => /\ Len(calls[c].items) = Len(calls[d].items)
                    /\ calls[c].recs = calls[d].recs
                    /\ calls[c].sep = calls[d].sep
                    /\ calls[c].result =
                         <<Safe(Joined(calls[d].sep[1].s,
                                       [i \in DOMAIN calls[c].items |->
                                          calls[c].items[i].s],
                                       Len(calls[d].items)))>>

\* The same accessor rendered by two columns that differ only in filter.
C7_Witness ==
  /\ columns[1].transform = columns[2].transform
  /\ columns[1].filter = "default"
  /\ columns[2].filter = "rev2"
  /\ calls[1].self = 1 /\ calls[2].self = 2
  /\ Returned(1) /\ Returned(2)
  /\ calls[1].value = <<"A", "B", "M">>
  /\ calls[2].value = <<"A", "B", "M">>
  /\ Len(calls[1].items) = 3
  /\ Len(calls[2].items) = 2
  /\ calls[1].items[3] = calls[2].items[1]

\* What render(value) of a column comes to when nothing else runs.
Alone(col, value) ==
  IF ~exists(value)
  THEN [pc |-> "done", result |-> <<Plain(Dash)>>]
  ELSE IF \E i \in DOMAIN Yielded(col, value) :
            Fails(col, Yielded(col, value)[i])
  THEN [pc |-> "raised", result |-> <<>>]
  ELSE [pc |-> "done", result |-> <<C2_Expected(col, value)>>]

\* C9: no step of render writes the column (its transform, filter, separator
\* and orderable stay as constructed), and however the render calls on one
\* column interleave, each ends as it does when run alone.
C9_RenderLeavesColumnAlone ==
  [][/\ columns' = columns
     /\ \A c \in CallIds :
          calls'[c].pc \in {"done", "raised"}
            => [pc |-> calls'[c].pc, result |-> calls'[c].result] =
                 Alone(columns[calls'[c].self], calls'[c].value)]_vars

\* A call on a column started and ended while another call on the same
\* column, for another row's accessor, was in the middle of its join.
C9_Witness ==
  /\ calls[1].pc = "join"
  /\ Len(calls[1].items) = 1
  /\ calls[1].it # <<>>
  /\ Returned(2)
  /\ calls[2].self = calls[1].self
  /\ calls[1].value = <<"A", "B", "M">>
  /\ calls[2].value = <<"M">>
  /\ calls[2].result = <<C2_Expected(columns[calls[2].self], <<"M">>)>>

====
